---------------------------- MODULE Spec2Model ----------------------------
(***************************************************************************)
(* Model of the blescanner example decoders                                *)
(*   examples/blescanner_atc_mithermometer.py  (Xiaomi / ATC, 15 bytes)    *)
(*   examples/blescanner_gvh5075_decoder.py    (Govee H5075, 6 bytes)      *)
(*   examples/blescanner_ruuvitag.py           (Ruuvi RAWv2, 24 bytes)     *)
(* fed with the device records blescanner.py emits.                        *)
(*                                                                         *)
(* Representation.                                                         *)
(*  - A Python str that the code converts or looks up (a payload in hex,   *)
(*    a key of advertisementdata) is a sequence of one-character strings;  *)
(*    a Python bytes object is a sequence of integers 0..255.              *)
(*    Python indexes from 0, TLA+ from 1: data[i] is written data[i+1].    *)
(*  - A dict is a function on the set of its keys, so a reading's fields   *)
(*    are exactly DOMAIN of the record.                                    *)
(*  - A float that the code rounds to k decimals is the integer number of  *)
(*    10^-k units it prints: temperature 18.81 is 1881 (Xiaomi, 1/100),    *)
(*    17.1 is 171 (Govee and Ruuvi, 1/10), voltage 2.58 is 258 (1/100).    *)
(*    The rounding itself follows IEEE-754 doubles: see PyRound.           *)
(*  - A message is the sequence of the literal and the formatted parts of  *)
(*    its f-string, each a string; the empty string is the empty sequence. *)
(*  - A call either returns a value or raises:                             *)
(*    [kind |-> "return", value |-> v] or [kind |-> "raise", exc |-> e].   *)
(***************************************************************************)
EXTENDS Integers, Sequences, FiniteSets, TLC

(***************************************************************************)
(* Bounds of the model.                                                    *)
(***************************************************************************)
\* Payload lengths 0..MaxPayloadLen are fed to every decoder.
MaxPayloadLen == 25
\* Around each anchor value a field takes the values anchor..anchor+SampleSpan.
SampleSpan == 6

\* The number of decode_data calls of a run of repeated calls.
MaxCalls == 3

(***************************************************************************)
(* Python values.                                                          *)
(***************************************************************************)
None == "None"

Return(v) == [kind |-> "return", value |-> v]

Raise(e) == [kind |-> "raise", exc |-> e]

Abs(n) == IF n < 0 THEN -n ELSE n

(***************************************************************************)
(* IEEE-754 double division and Python's round().                          *)
(***************************************************************************)
\* Number of binary digits of q (0 for q = 0).
RECURSIVE BitLength(_)
BitLength(q) == IF q = 0 THEN 0 ELSE 1 + BitLength(q \div 2)

\* Binary long division of r/d (0 <= r < d), k significand bits still to be
\* produced; started = the leading 1 bit has been seen; last = the last bit
\* produced.  The value is the sign of (nearest double) - (exact quotient),
\* rounding to nearest, ties to even.
RECURSIVE DivisionError(_, _, _, _, _)
DivisionError(r, d, k, started, last) ==
    IF r = 0 THEN 0
    ELSE IF k = 0
         THEN IF 2 * r < d THEN -1
              ELSE IF 2 * r > d THEN 1
              ELSE IF last = 1 THEN 1 ELSE -1
         ELSE LET bit == IF 2 * r >= d THEN 1 ELSE 0
                  rr  == 2 * r - bit * d
              IN  IF started \/ bit = 1
                  THEN DivisionError(rr, d, k - 1, TRUE, bit)
                  ELSE DivisionError(rr, d, k, FALSE, 0)

\* Sign of float(n / d) - n/d for integers n >= 0, d > 0 (53-bit significand).
FloatDivError(n, d) ==
    LET q == n \div d
        r == n % d
    IN  IF q = 0 THEN DivisionError(r, d, 53, FALSE, 0)
        ELSE DivisionError(r, d, 53 - BitLength(q), TRUE, q % 2)

\* round(n / d, k) in units of 10^-k, with scale = 10^k, for n >= 0: Python
\* rounds the double n/d correctly, so only an exact decimal tie depends on
\* the direction in which the division was rounded; a double that is exactly
\* the tie goes to the even neighbour.
PyRoundNonNeg(n, d, scale) ==
    LET q == (n * scale) \div d
        r == (n * scale) % d
    IN  IF 2 * r < d THEN q
        ELSE IF 2 * r > d THEN q + 1
        ELSE LET e == FloatDivError(n, d)
             IN  IF e > 0 THEN q + 1
                 ELSE IF e < 0 THEN q
                 ELSE IF q % 2 = 0 THEN q ELSE q + 1

\* round(n / d, k) for any integer n (doubles and round() are symmetric in sign).
PyRound(n, d, scale) ==
    IF n < 0 THEN -PyRoundNonNeg(-n, d, scale) ELSE PyRoundNonNeg(n, d, scale)

(***************************************************************************)
(* str: upper(), hex(), bytes.hex() and bytes.fromhex().                   *)
(***************************************************************************)
HexDigits == <<"0", "1", "2", "3", "4", "5", "6", "7",
               "8", "9", "A", "B", "C", "D", "E", "F">>

LowerHexDigits == <<"0", "1", "2", "3", "4", "5", "6", "7",
                    "8", "9", "a", "b", "c", "d", "e", "f">>

LowerLetters == <<"a", "b", "c", "d", "e", "f", "g", "h", "i", "j", "k", "l", "m",
                  "n", "o", "p", "q", "r", "s", "t", "u", "v", "w", "x", "y", "z">>

UpperLetters == <<"A", "B", "C", "D", "E", "F", "G", "H", "I", "J", "K", "L", "M",
                  "N", "O", "P", "Q", "R", "S", "T", "U", "V", "W", "X", "Y", "Z">>

\* c.upper() of one character: a lowercase letter becomes its capital,
\* every other character is kept.
UpperChar(c) ==
    IF \E i \in 1..26 : LowerLetters[i] = c
    THEN UpperLetters[CHOOSE i \in 1..26 : LowerLetters[i] = c]
    ELSE c

\* s.upper() of a str.
upper(s) == [i \in 1..Len(s) |-> UpperChar(s[i])]

\* bytes.hex(): two lowercase digits per byte.
hex_bytes(bytes) ==
    [i \in 1..(2 * Len(bytes)) |->
        IF i % 2 = 1 THEN LowerHexDigits[(bytes[(i + 1) \div 2] \div 16) + 1]
                     ELSE LowerHexDigits[(bytes[i \div 2] % 16) + 1]]

\* The lowercase hex digits of n >= 0, most significant first ("0" for 0).
RECURSIVE HexOf(_)
HexOf(n) ==
    IF n < 16 THEN <<LowerHexDigits[n + 1]>>
    ELSE Append(HexOf(n \div 16), LowerHexDigits[(n % 16) + 1])

\* hex(n) of an int n >= 0: '0x' and the lowercase digits.
hex_int(n) == <<"0", "x">> \o HexOf(n)

\* int(c, 16) of one character; -1 when c is no hex digit.
HexDigitValue(c) ==
    IF \E v \in 1..16 : HexDigits[v] = c
    THEN (CHOOSE v \in 1..16 : HexDigits[v] = c) - 1
    ELSE IF c \in {"a", "b", "c", "d", "e", "f"}
         THEN CASE c = "a" -> 10 [] c = "b" -> 11 [] c = "c" -> 12
                [] c = "d" -> 13 [] c = "e" -> 14 [] c = "f" -> 15
         ELSE -1

\* bytes.fromhex(s): ValueError on an odd number of digits or a non-hex digit.
fromhex(s) ==
    IF Len(s) % 2 = 1 \/ \E i \in 1..Len(s) : HexDigitValue(s[i]) < 0
    THEN Raise("ValueError")
    ELSE Return([i \in 1..(Len(s) \div 2) |->
                    16 * HexDigitValue(s[2 * i - 1]) + HexDigitValue(s[2 * i])])

(***************************************************************************)
(* struct.unpack field readers; off is the 0-based offset of the field.    *)
(***************************************************************************)
\* Faulty variant: the field is read most significant byte first.
U16LE_big_endian(b, off) == 256 * b[off + 1] + b[off + 2]

\* '<H': unsigned 16 bit, little-endian.
U16LE(b, off) == b[off + 1] + 256 * b[off + 2]

\* Faulty variant: the field is read least significant byte first.
U16BE_little_endian(b, off) == b[off + 1] + 256 * b[off + 2]

\* '>H': unsigned 16 bit, big-endian.
U16BE(b, off) == 256 * b[off + 1] + b[off + 2]

\* Faulty variant: the field is read as unsigned ('>H' for '>h').
S16BE_unsigned(b, off) == 256 * b[off + 1] + b[off + 2]

\* '>h': signed 16 bit (two's complement), big-endian.
S16BE(b, off) ==
    IF U16BE(b, off) >= 32768 THEN U16BE(b, off) - 65536 ELSE U16BE(b, off)

\* Faulty variant: the slice starts and ends one byte late.
Slice_one_late(b, lo, hi) == SubSeq(b, lo + 2, hi + 1)

\* data[lo:hi] of a bytes object.
Slice(b, lo, hi) == SubSeq(b, lo + 1, hi)

(***************************************************************************)
(* Keys of a device record (the same in the three examples).               *)
(***************************************************************************)
_ADDRESS_KEY == "address"

_NAME_KEY == "name"

_ADVERTISEMENT_KEY == "advertisementdata"

\* Faulty variant: a key that starts with k stands in for a missing k.
GetItem_prefix(d, k) ==
    IF k \in DOMAIN d THEN Return(d[k])
    ELSE LET longer == {key \in DOMAIN d :
                          Len(key) > Len(k) /\ SubSeq(key, 1, Len(k)) = k}
         IN  IF longer # {} THEN Return(d[CHOOSE key \in longer : TRUE])
             ELSE Raise("KeyError")

\* d[k] of a dict: KeyError when k is no key of d.
GetItem(d, k) == IF k \in DOMAIN d THEN Return(d[k]) ELSE Raise("KeyError")

\* str(n) inside an f-string.
str(n) == ToString(n)

\* Faulty variant: the message repeats the expected length instead of the received one.
WrongSizeMessage_expected_twice(expected, received) ==
    <<"Received wrong data size (bytes). Expect ", str(expected),
      ", received ", str(expected)>>

\* The message of the wrong-length branch:
\* f'Received wrong data size (bytes). Expect {expected}, received {received}'
WrongSizeMessage(expected, received) ==
    <<"Received wrong data size (bytes). Expect ", str(expected),
      ", received ", str(received)>>

\* Faulty variant: the wrong-length reading is built without its message text.
wrong_size_reading_no_message(macaddress, name, expected, received) ==
    [mac |-> macaddress, name |-> name, status |-> "ERR", message |-> <<>>]

\* The reading of the wrong-length branch (the same in the three examples).
wrong_size_reading(macaddress, name, expected, received) ==
    [mac |-> macaddress, name |-> name, status |-> "ERR",
     message |-> WrongSizeMessage(expected, received)]

(***************************************************************************)
(* examples/blescanner_atc_mithermometer.py                                *)
(***************************************************************************)
ATC_ADVERTISED_DATA_LENGTH == 15

\* '0000181A-0000-1000-8000-00805F9B34FB'
_UUID_SERVICE_DATA ==
    <<"0", "0", "0", "0", "1", "8", "1", "A", "-", "0", "0", "0", "0", "-",
      "1", "0", "0", "0", "-", "8", "0", "0", "0", "-",
      "0", "0", "8", "0", "5", "F", "9", "B", "3", "4", "F", "B">>

\* The reading built from the 15 payload bytes (lines 97-130).
atc_reading(macaddress, name, data) ==
    IF Len(data) # ATC_ADVERTISED_DATA_LENGTH
    THEN wrong_size_reading(macaddress, name,
                            ATC_ADVERTISED_DATA_LENGTH, Len(data))
    ELSE LET thvb == Slice(data, 6, 13)
             dat  == <<U16LE(thvb, 0), U16LE(thvb, 2), U16LE(thvb, 4), thvb[7]>>
         IN  [status |-> "OK", message |-> <<>>,
              mac |-> macaddress, name |-> name,
              temperature  |-> PyRound(dat[1], 100, 100),
              humidity     |-> PyRound(dat[2], 100, 1),
              voltage      |-> PyRound(dat[3], 1000, 100),
              batterylevel |-> dat[4]]

\* decode_data(data) of the Xiaomi / ATC example.
decode_data_atc(data) ==
    LET macaddress == GetItem(data, _ADDRESS_KEY)
        name       == GetItem(data, _NAME_KEY)
        adv        == GetItem(data, _ADVERTISEMENT_KEY)
    IN  IF macaddress.kind = "raise" THEN macaddress
        ELSE IF name.kind = "raise" THEN name
        ELSE IF adv.kind = "raise" THEN adv
        ELSE LET hexstr == GetItem(adv.value, _UUID_SERVICE_DATA)
             IN  IF hexstr.kind = "raise" THEN hexstr
                 ELSE LET bytes == fromhex(hexstr.value)
                      IN  IF bytes.kind = "raise" THEN bytes
                          ELSE Return(atc_reading(macaddress.value, name.value,
                                                  bytes.value))

(***************************************************************************)
(* examples/blescanner_gvh5075_decoder.py                                  *)
(***************************************************************************)
GVH_ADVERTISED_DATA_LENGTH == 6

\* "0XEC88"
GVH_MANUFACTURER_KEY == <<"0", "X", "E", "C", "8", "8">>

\* Faulty variant: the value is read least significant byte first.
U32BE_little_endian(b) == [hi |-> U16LE(b, 2), lo |-> U16LE(b, 0)]

\* struct.unpack(">I", b)[0]: an unsigned 32-bit value, big-endian.  It can
\* exceed the 31 bits of a checker integer, so it is kept as its two 16-bit
\* halves: the value is 65536 * hi + lo.
U32BE(b) == [hi |-> U16BE(b, 0), lo |-> U16BE(b, 2)]

\* raw & 0x800000 is non-zero: bit 23 of the value is bit 7 of the high half.
HasSignBit(raw) == (raw.hi \div 128) % 2 = 1

\* Faulty variant: the sign bit is left in the value.
ClearSignBit_kept(raw) == raw

\* raw ^ 0x800000 for a value with bit 23 set.
ClearSignBit(raw) == [raw EXCEPT !.hi = @ - 128]

\* Faulty variant: the remainder is taken of the low 16 bits only.
Mod1000_low_half(raw) == raw.lo % 1000

\* int(raw / 1000) and raw % 1000, from 65536 = 65 * 1000 + 536.
Div1000(raw) == 65 * raw.hi + ((536 * raw.hi + raw.lo) \div 1000)

Mod1000(raw) == (536 * raw.hi + raw.lo) % 1000

\* The reading built from the 6 payload bytes (lines 96-139).
gvh_reading(macaddress, name, data) ==
    IF Len(data) # GVH_ADVERTISED_DATA_LENGTH
    THEN wrong_size_reading(macaddress, name,
                            GVH_ADVERTISED_DATA_LENGTH, Len(data))
    ELSE LET temphumdata == Slice(data, 0, 4)
             raw0        == U32BE(temphumdata)
             is_negative == HasSignBit(raw0)
             raw         == IF is_negative THEN ClearSignBit(raw0) ELSE raw0
             \* int(raw / 1000) / 10, in tenths, then 0 - temperature
             temperature == IF is_negative THEN 0 - Div1000(raw) ELSE Div1000(raw)
             \* (raw % 1000) / 10, in tenths
             humidity    == Mod1000(raw)
             batterylevel == data[5]
         IN  [mac |-> macaddress, name |-> name,
              status |-> "OK", message |-> <<>>,
              temperature  |-> PyRound(temperature, 10, 10),
              humidity     |-> humidity \div 10,
              batterylevel |-> batterylevel]

\* decode_data(data) of the Govee example.
decode_data_gvh5075(data) ==
    LET macaddress == GetItem(data, _ADDRESS_KEY)
        name       == GetItem(data, _NAME_KEY)
        adv        == GetItem(data, _ADVERTISEMENT_KEY)
    IN  IF macaddress.kind = "raise" THEN macaddress
        ELSE IF name.kind = "raise" THEN name
        ELSE IF adv.kind = "raise" THEN adv
        ELSE LET hexstr == GetItem(adv.value, GVH_MANUFACTURER_KEY)
             IN  IF hexstr.kind = "raise" THEN hexstr
                 ELSE LET bytes == fromhex(hexstr.value)
                      IN  IF bytes.kind = "raise" THEN bytes
                          ELSE Return(gvh_reading(macaddress.value, name.value,
                                                  bytes.value))

(***************************************************************************)
(* examples/blescanner_ruuvitag.py                                         *)
(***************************************************************************)
RUUVI_ADVERTISED_DATA_LENGTH == 24

\* "0X499"
RUUVI_MANUFACTURER_KEY == <<"0", "X", "4", "9", "9">>

_DATATYPE_ADV == 5

\* _BATTERY_LEVEL_MIN and _BATTERY_LEVEL_MAX, in millivolts.
_BATTERY_LEVEL_MIN == 1600

_BATTERY_LEVEL_MAX == 3646

\* Faulty variant: the power-info field is read as signed ('h' for 'H').
ruuvi_unpack_power_signed(data) ==
    <<data[1], S16BE(data, 1), U16BE(data, 3), U16BE(data, 5),
      S16BE(data, 7), S16BE(data, 9), S16BE(data, 11),
      S16BE(data, 13), data[16], U16BE(data, 16)>>

\* struct.unpack('>BhHHhhhHBH', data) of 18 bytes: a tuple of 10 items,
\* dat[i] of the code is dat[i + 1] here.
ruuvi_unpack(data) ==
    <<data[1], S16BE(data, 1), U16BE(data, 3), U16BE(data, 5),
      S16BE(data, 7), S16BE(data, 9), S16BE(data, 11),
      U16BE(data, 13), data[16], U16BE(data, 16)>>

\* v = round(((dat[7] / 32) + 1600) / 1000.0, 2), in 1/100 V.  dat[7] / 32 and
\* the sum are exact doubles (at most 17 significant bits), so the one rounded
\* operation is the division of (dat[7] + 51200) / 32 by 1000.
ruuvi_voltage(power) == PyRound(power + 32 * 1600, 32 * 1000, 100)

\* Faulty variant: the percentage is rounded to the nearest integer.
ruuvi_batterylevel_rounded(v) ==
    (2 * (10 * v - _BATTERY_LEVEL_MIN) * 100
        + (_BATTERY_LEVEL_MAX - _BATTERY_LEVEL_MIN))
    \div (2 * (_BATTERY_LEVEL_MAX - _BATTERY_LEVEL_MIN))

\* int((v - _BATTERY_LEVEL_MIN) / (_BATTERY_LEVEL_MAX - _BATTERY_LEVEL_MIN) * 100)
\* for v in 1/100 V.  The quotient is an integer only at v = 1.6 (where v - 1.6
\* is exactly 0.0); everywhere else it is at least 1/1023 away from one, far
\* more than the error of the three float operations, so int() truncates the
\* exact value.  int() truncates toward zero.
ruuvi_batterylevel(v) ==
    LET num == (10 * v - _BATTERY_LEVEL_MIN) * 100
        den == _BATTERY_LEVEL_MAX - _BATTERY_LEVEL_MIN
    IN  IF num >= 0 THEN num \div den ELSE -((-num) \div den)

\* Faulty variant: the data format is looked for in the second byte.
is_datatype_adv_second_byte(data) == data[2] = _DATATYPE_ADV

\* Faulty variant: the message names the data type received.
WrongTypeMessage_with_value(datatype) ==
    <<"Received wrong data type ", str(datatype)>>

\* data[0] == _DATATYPE_ADV
is_datatype_adv(data) == data[1] = _DATATYPE_ADV

\* The message of the wrong-type branch; datatype is data[0].
WrongTypeMessage(datatype) == <<"Received wrong data type.">>

\* The reading built from the 24 payload bytes (lines 124-167).
ruuvi_reading(macaddress, name, data0) ==
    IF Len(data0) # RUUVI_ADVERTISED_DATA_LENGTH
    THEN wrong_size_reading(macaddress, name,
                            RUUVI_ADVERTISED_DATA_LENGTH, Len(data0))
    ELSE LET data == Slice(data0, 0, 18)
         IN  IF is_datatype_adv(data)
             THEN LET dat == ruuvi_unpack(data)
                      v   == ruuvi_voltage(dat[8])
                  IN  [mac |-> macaddress, name |-> name,
                       status |-> "OK", message |-> <<>>,
                       temperature     |-> PyRound(dat[2], 200, 10),
                       humidity        |-> dat[3] \div 400,
                       airpressure     |-> (dat[4] + 50000) \div 100,
                       accelerationx   |-> dat[5],
                       accelerationy   |-> dat[6],
                       accelerationz   |-> dat[7],
                       voltage         |-> v,
                       batterylevel    |-> ruuvi_batterylevel(v),
                       txstrength      |-> (dat[8] % 32) * 2 - 40,
                       movementcounter |-> dat[9],
                       sequencecounter |-> dat[10]]
             ELSE [mac |-> macaddress, status |-> "ERR",
                   message |-> WrongTypeMessage(data[1])]

\* decode_data(data) of the Ruuvi example.
decode_data_ruuvitag(data) ==
    LET macaddress == GetItem(data, _ADDRESS_KEY)
        name       == GetItem(data, _NAME_KEY)
        adv        == GetItem(data, _ADVERTISEMENT_KEY)
    IN  IF macaddress.kind = "raise" THEN macaddress
        ELSE IF name.kind = "raise" THEN name
        ELSE IF adv.kind = "raise" THEN adv
        ELSE LET hexstr == GetItem(adv.value, RUUVI_MANUFACTURER_KEY)
             IN  IF hexstr.kind = "raise" THEN hexstr
                 ELSE LET bytes == fromhex(hexstr.value)
                      IN  IF bytes.kind = "raise" THEN bytes
                          ELSE Return(ruuvi_reading(macaddress.value, name.value,
                                                    bytes.value))

(***************************************************************************)
(* blescanner.py: the record BLEScanner.scanning builds for one discovered *)
(* device when advertised data is requested (lines 104-124).               *)
(*   device  = [address, name]                       (bleak BLEDevice)     *)
(*     address is a str, name an opaque name or None                       *)
(*   advdata = [local_name, manufacturer_data, service_data, tx_power,     *)
(*              rssi]                                (bleak AdvertisementData)*)
(* manufacturer_data maps company ids (int) to bytes, service_data maps    *)
(* UUID strings to bytes.  The code tests local_name, tx_power and rssi    *)
(* only for truth: an absent tx_power is written 0, an absent name None.   *)
(* f @@ g keeps f where both are defined, so a later assignment of the     *)
(* code stands to the left of an earlier one.                              *)
(***************************************************************************)
EmptyDict == [k \in {} |-> 0]

KEY_manufacturer_data ==
    <<"m", "a", "n", "u", "f", "a", "c", "t", "u", "r", "e", "r", "_", "d", "a", "t", "a">>

KEY_service_data == <<"s", "e", "r", "v", "i", "c", "e", "_", "d", "a", "t", "a">>

KEY_tx_power == <<"t", "x", "_", "p", "o", "w", "e", "r">>

KEY_rssi == <<"r", "s", "s", "i">>

manufacturer_keyname(key) == upper(hex_int(key))

service_keyname(key) == upper(key)

\* for key, value in advdata.manufacturer_data.items():
\*     newadvdata[hex(key).upper()] = value.hex().upper()
\* (two keys with the same name: the dict keeps one of the values).
manufacturer_items(d) ==
    [k \in {manufacturer_keyname(key) : key \in DOMAIN d} |->
        LET key == CHOOSE key \in DOMAIN d : manufacturer_keyname(key) = k
        IN  upper(hex_bytes(d[key]))]

\* for key, value in advdata.service_data.items():
\*     newadvdata[key.upper()] = value.hex().upper()
service_items(d) ==
    [k \in {service_keyname(key) : key \in DOMAIN d} |->
        LET key == CHOOSE key \in DOMAIN d : service_keyname(key) = k
        IN  upper(hex_bytes(d[key]))]

newadvdata(advdata) ==
    LET m == IF DOMAIN advdata.manufacturer_data # {}
             THEN manufacturer_items(advdata.manufacturer_data)
                  @@ (KEY_manufacturer_data :> TRUE)
             ELSE EmptyDict
        s == IF DOMAIN advdata.service_data # {}
             THEN service_items(advdata.service_data)
                  @@ (KEY_service_data :> TRUE)
             ELSE EmptyDict
        t == IF advdata.tx_power # 0
             THEN (KEY_tx_power :> advdata.tx_power) ELSE EmptyDict
        r == IF advdata.rssi # 0 THEN (KEY_rssi :> advdata.rssi) ELSE EmptyDict
    IN  r @@ t @@ s @@ m

newdevice(device, advdata) ==
    LET base == [address |-> device.address, name |-> device.name,
                 advertisementdata |-> newadvdata(advdata)]
    IN  IF advdata.local_name # None /\ advdata.local_name # ""
        THEN ("local_name" :> advdata.local_name) @@ base
        ELSE base

\* The record of the branch without advertised data (lines 83-85).
newdevice_plain(device) == [address |-> device.address, name |-> device.name]

_TIMEOUT_MIN == 5

\* None where a str is expected (a str is a sequence of characters).
NoneStr == <<None>>

\* s.strip(): s without its leading and trailing blanks.
RECURSIVE lstrip(_)
lstrip(s) == IF s # <<>> /\ Head(s) = " " THEN lstrip(Tail(s)) ELSE s

RECURSIVE rstrip(_)
rstrip(s) ==
    IF s # <<>> /\ s[Len(s)] = " " THEN rstrip(SubSeq(s, 1, Len(s) - 1)) ELSE s

strip(s) == rstrip(lstrip(s))

\* Faulty variant: the timeout is taken as given.
BLEScanner_init_no_minimum(timeout, advdata, mac, debug) ==
    [_timeout |-> timeout,
     _advdata |-> advdata # 0,
     _mac     |-> IF mac # NoneStr THEN strip(mac) ELSE mac,
     _debug   |-> debug # 0]

\* BLEScanner.__init__(timeout, advdata, mac, debug).
BLEScanner_init(timeout, advdata, mac, debug) ==
    [_timeout |-> IF timeout >= _TIMEOUT_MIN THEN timeout ELSE _TIMEOUT_MIN,
     _advdata |-> advdata # 0,
     _mac     |-> IF mac # NoneStr THEN strip(mac) ELSE mac,
     _debug   |-> debug # 0]

\* The devices of the sequence found that pass the mac filter, in order, each
\* as the record make builds (result.append(newdevice) under the two tests).
RECURSIVE filtered(_, _)
filtered(self, found) ==
    IF found = <<>> THEN <<>>
    ELSE LET device    == Head(found)[1]
             advdata   == Head(found)[2]
             rec       == IF self._advdata THEN newdevice(device, advdata)
                                           ELSE newdevice_plain(device)
         IN  IF self._mac = NoneStr \/ self._mac = device.address
             THEN <<rec>> \o filtered(self, Tail(found))
             ELSE filtered(self, Tail(found))

\* BLEScanner.scanning: the result list printed as JSON; found is what
\* BleakScanner.discover returned, a sequence of <<BLEDevice, AdvertisementData>>.
scanning(self, found) == filtered(self, found)

(***************************************************************************)
(* The command line of blescanner.py, as the examples build it: one        *)
(* argument per option, '-m ' + mac, '-t ' + str(timeout), ...  argparse   *)
(* takes what follows the two characters of the option as its value, so    *)
(* the value starts with the blank.                                        *)
(***************************************************************************)
DecimalDigits == <<"0", "1", "2", "3", "4", "5", "6", "7", "8", "9">>

\* str(n) of an int, as a str.
RECURSIVE DigitsOf(_)
DigitsOf(n) ==
    IF n < 10 THEN <<DecimalDigits[n + 1]>>
    ELSE Append(DigitsOf(n \div 10), DecimalDigits[(n % 10) + 1])

str_int(n) == IF n < 0 THEN <<"-">> \o DigitsOf(-n) ELSE DigitsOf(n)

\* int(s) of a str of decimal digits with an optional sign, blanks around it
\* ignored (argparse type=int).
RECURSIVE ValueOf(_)
ValueOf(s) ==
    IF s = <<>> THEN 0
    ELSE 10 * ValueOf(SubSeq(s, 1, Len(s) - 1))
         + ((CHOOSE v \in 1..10 : DecimalDigits[v] = s[Len(s)]) - 1)

int_str(s) ==
    LET t == strip(s)
    IN  IF Head(t) = "-" THEN -ValueOf(Tail(t)) ELSE ValueOf(t)

\* '-x ' + value
option(letter, value) == <<"-", letter, " ">> \o value

\* The value argparse hands over for the option -x: what follows '-x' in the
\* argument that starts with it or, when nothing follows, the next argument;
\* the default when no argument starts with '-x'.
option_value(argv, letter, default) ==
    LET at == {i \in 1..Len(argv) :
                 Len(argv[i]) >= 2 /\ argv[i][1] = "-" /\ argv[i][2] = letter}
    IN  IF at = {} THEN default
        ELSE LET i == CHOOSE i \in at : \A j \in at : j <= i
             IN  IF Len(argv[i]) > 2 THEN SubSeq(argv[i], 3, Len(argv[i]))
                 ELSE argv[i + 1]

\* __main__ of blescanner.py on the command line argv: the BLEScanner object
\* it creates and the list it prints.
blescanner_main(argv, found) ==
    LET self == BLEScanner_init(int_str(option_value(argv, "t", str_int(10))),
                                int_str(option_value(argv, "a", str_int(0))),
                                option_value(argv, "m", NoneStr),
                                int_str(option_value(argv, "d", str_int(0))))
    IN  [scanner |-> self, output |-> scanning(self, found)]

(***************************************************************************)
(* The advertisements a scan can discover (the inputs of the model).       *)
(***************************************************************************)
\* The payloads of the module docstrings.
ATC_EXAMPLE == <<194, 116, 82, 56, 193, 164, 89, 7, 219, 21, 19, 10, 54, 131, 14>>

GVH_EXAMPLE == <<0, 2, 158, 67, 100, 0>>

RUUVI_EXAMPLE == <<5, 11, 133, 96, 48, 200, 121, 255, 224, 0, 100, 3, 248, 170,
                   22, 25, 56, 67, 247, 111, 216, 39, 183, 141>>

\* b with the 16-bit field at 0-based offset off set to v.
PutU16LE(b, off, v) == [b EXCEPT ![off + 1] = v % 256, ![off + 2] = v \div 256]

PutU16BE(b, off, v) == [b EXCEPT ![off + 1] = v \div 256, ![off + 2] = v % 256]

\* The first n bytes of b followed by zeros.
Pad(b, n) == [i \in 1..n |-> IF i <= Len(b) THEN b[i] ELSE 0]

\* Values of a 16-bit field: runs that hold the decimal ties of the roundings
\* (5, 50, 125, 160, 2575, 65506 = -30), the documented examples (2579, 5595),
\* the sign boundary and both ends of the range.
Anchors == {0, 45, 120, 155, 2575, 5590, 32762, 65500, 65529}

U16Samples == (UNION {a..(a + SampleSpan) : a \in Anchors}) \cap (0..65535)

ByteSamples == {0, 1, 54, 100, 127, 128, 255}

\* The first two bytes of a Govee payload: with and without the sign bit
\* 0x80 in the second byte, with and without bits above the 24th.
GvhHighSamples == {0, 2, 127, 128, 130, 255, 256, 642, 32767, 65407, 65535}

AtcPayloads ==
    {PutU16LE(ATC_EXAMPLE, off, v) : off \in {6, 8, 10}, v \in U16Samples}
    \cup {[ATC_EXAMPLE EXCEPT ![13] = b] : b \in ByteSamples}
    \cup {[ATC_EXAMPLE EXCEPT ![i] = 255 - @] : i \in {1, 6, 14, 15}}

GvhPayloads ==
    {PutU16BE(PutU16BE(GVH_EXAMPLE, 0, hi), 2, lo) :
        hi \in GvhHighSamples, lo \in U16Samples}
    \cup {[GVH_EXAMPLE EXCEPT ![5] = b] : b \in ByteSamples}
    \cup {[GVH_EXAMPLE EXCEPT ![6] = 255]}

RuuviPayloads ==
    {PutU16BE(RUUVI_EXAMPLE, off, v) : off \in {1, 3, 5, 13}, v \in U16Samples}
    \cup {PutU16BE(RUUVI_EXAMPLE, off, v) :
            off \in {7, 9, 11, 16}, v \in {0, 1, 1000, 32767, 32768, 65535}}
    \cup {[RUUVI_EXAMPLE EXCEPT ![16] = b] : b \in ByteSamples}
    \cup {[RUUVI_EXAMPLE EXCEPT ![i] = 255 - @] : i \in {19, 24}}
    \cup {[p EXCEPT ![1] = t] :
            t \in {0, 3, 4, 6, 255},
            p \in {RUUVI_EXAMPLE, PutU16BE(RUUVI_EXAMPLE, 1, 65535),
                   Pad(<<>>, 24), Pad(<<5, 5, 5, 5>>, 24)}}

\* Payloads of every length 0..MaxPayloadLen.
LengthPayloads ==
    {Pad(b, n) : b \in {ATC_EXAMPLE, GVH_EXAMPLE, RUUVI_EXAMPLE},
                 n \in 0..MaxPayloadLen}

\* '0000181a-0000-1000-8000-00805f9b34fb', as bleak reports it.
ATC_SERVICE_UUID ==
    <<"0", "0", "0", "0", "1", "8", "1", "a", "-", "0", "0", "0", "0", "-",
      "1", "0", "0", "0", "-", "8", "0", "0", "0", "-",
      "0", "0", "8", "0", "5", "f", "9", "b", "3", "4", "f", "b">>

\* Company ids: 0xEC88 (Govee), 0x499 (Ruuvi), 0x4990 and 0x4C (others).
CompanyIds == {60552, 1177, 18832, 76}

\* 'A4:C1:38:38:A9:0C', 'A4:C1:38:D1:17:57', 'F7:6F:D8:27:B7:8D': the _MAC of
\* the three examples; '70:2A:D5:7E:23:26': a device without a name.
ATC_MAC == <<"A", "4", ":", "C", "1", ":", "3", "8", ":", "3", "8", ":",
             "A", "9", ":", "0", "C">>

GVH_MAC == <<"A", "4", ":", "C", "1", ":", "3", "8", ":", "D", "1", ":",
             "1", "7", ":", "5", "7">>

RUUVI_MAC == <<"F", "7", ":", "6", "F", ":", "D", "8", ":", "2", "7", ":",
               "B", "7", ":", "8", "D">>

OTHER_MAC == <<"7", "0", ":", "2", "A", ":", "D", "5", ":", "7", "E", ":",
               "2", "3", ":", "2", "6">>

BLEDevices ==
    {[address |-> ATC_MAC, name |-> "ATC_38A90C"],
     [address |-> GVH_MAC, name |-> "GVH5075_1757"],
     [address |-> RUUVI_MAC, name |-> "Ruuvi B78D"],
     [address |-> OTHER_MAC, name |-> None]}

AdvertisementData(m, s) ==
    [local_name |-> None, manufacturer_data |-> m, service_data |-> s,
     tx_power |-> 0, rssi |-> -60]

Advertisements ==
    {AdvertisementData(EmptyDict, ATC_SERVICE_UUID :> p) : p \in AtcPayloads}
    \cup {AdvertisementData((60552 :> p) @@ (76 :> <<2, 21>>), EmptyDict) :
            p \in GvhPayloads}
    \cup {AdvertisementData(1177 :> p, EmptyDict) : p \in RuuviPayloads}
    \cup {AdvertisementData(EmptyDict, ATC_SERVICE_UUID :> p) : p \in LengthPayloads}
    \cup {AdvertisementData(id :> p, EmptyDict) :
            id \in CompanyIds, p \in LengthPayloads}
    \cup {AdvertisementData(EmptyDict, EmptyDict)}

_DEBUG == 0

_ADVDATA == 1

_TIME_OUT == 10

MULTIPLE_TIME_OUT == 5

_TIME_OUT_SUBPROCESS == 30

\* 'a4:c1:38:d1:17:57' and ' A4:C1:38:D1:17:57 '.
GVH_MAC_LOWER ==
    <<"a", "4", ":", "c", "1", ":", "3", "8", ":", "d", "1", ":",
      "1", "7", ":", "5", "7">>

GVH_MAC_BLANKS == <<" ">> \o GVH_MAC \o <<" ">>

\* Values of a timeout argument: below, at and above the minimum of the
\* scanner and the timeout of the subprocess.
TimeoutArgs == {-3, 0, 4, 5, 6, 10, 29, 30, 31, 60}

\* The runs of the examples with their own constants: the script and the
\* mac, timeout and advdata it scans with (_MAC, _TIME_OUT, _ADVDATA; the
\* multiple-devices example passes no mac).
ExampleRuns ==
    {[script |-> "atc", mac |-> ATC_MAC, timeout |-> _TIME_OUT,
      advdata |-> _ADVDATA],
     [script |-> "gvh5075", mac |-> GVH_MAC, timeout |-> _TIME_OUT,
      advdata |-> _ADVDATA],
     [script |-> "ruuvitag", mac |-> RUUVI_MAC, timeout |-> _TIME_OUT,
      advdata |-> _ADVDATA],
     [script |-> "multiple_devices", mac |-> NoneStr,
      timeout |-> MULTIPLE_TIME_OUT, advdata |-> _ADVDATA]}

\* The Govee example takes mac and timeout from its command line (-m, -t).
GvhRuns ==
    {[script |-> "gvh5075", mac |-> m, timeout |-> t, advdata |-> _ADVDATA] :
        m \in {GVH_MAC, OTHER_MAC, GVH_MAC_LOWER, GVH_MAC_BLANKS},
        t \in TimeoutArgs}

\* blescanner.py run from a shell: python3 blescanner.py -t 5 -a 1 -m MAC.
ShellRuns ==
    {[script |-> "blescanner", mac |-> m, timeout |-> t, advdata |-> a] :
        m \in {NoneStr, ATC_MAC, GVH_MAC_LOWER},
        t \in {-3, 5, 60},
        a \in {0, 1}}

Runs == ExampleRuns \cup GvhRuns \cup ShellRuns

\* The documented devices, each with its documented advertisement.
DocumentedDevices ==
    {<<[address |-> ATC_MAC, name |-> "ATC_38A90C"],
       AdvertisementData(EmptyDict, ATC_SERVICE_UUID :> ATC_EXAMPLE)>>,
     <<[address |-> GVH_MAC, name |-> "GVH5075_1757"],
       AdvertisementData(60552 :> GVH_EXAMPLE, EmptyDict)>>,
     <<[address |-> RUUVI_MAC, name |-> "Ruuvi B78D"],
       AdvertisementData(1177 :> RUUVI_EXAMPLE, EmptyDict)>>,
     <<[address |-> OTHER_MAC, name |-> None],
       AdvertisementData(76 :> <<2, 21>>, EmptyDict)>>}

\* What one scan discovers: up to three of the documented devices, each
\* once, in any order.
Discoveries ==
    {<<>>}
    \cup {<<a>> : a \in DocumentedDevices}
    \cup {q \in {<<a, b>> : a \in DocumentedDevices, b \in DocumentedDevices} :
            q[1] # q[2]}
    \cup {q \in {<<a, b, c>> : a \in DocumentedDevices, b \in DocumentedDevices,
                               c \in DocumentedDevices} :
            q[1] # q[2] /\ q[1] # q[3] /\ q[2] # q[3]}

(***************************************************************************)
(* The state: one run of an example script or of blescanner.py.            *)
(*   run         the script that runs and its mac, timeout and advdata     *)
(*   discovered  what BleakScanner.discover returns to blescanner.py       *)
(*   scanner     the BLEScanner object of blescanner.py                    *)
(*   devices     the list blescanner.py prints and the script parses       *)
(*   devdata     what decode_data(devices[0]) returned or raised           *)
(*   calls       the calls of decode_data so far: the example, the record  *)
(*               handed over and what the call returned or raised          *)
(***************************************************************************)
VARIABLES pc, run, discovered, scanner, devices, devdata, calls

vars == <<pc, run, discovered, scanner, devices, devdata, calls>>

script == run.script

\* Every run with every discovery of documented devices; the runs that
\* decode, in addition, with one device that advertises any of the payloads.
Init ==
    /\ pc = "start"
    /\ \/ /\ run \in Runs
          /\ discovered \in Discoveries
       \/ /\ run \in ExampleRuns \cup {r \in GvhRuns : r.mac = OTHER_MAC
                                                       /\ r.timeout = _TIME_OUT}
          /\ \E device \in BLEDevices, advdata \in Advertisements :
                /\ device.address = run.mac
                /\ discovered = <<<<device, advdata>>>>
    /\ scanner = [kind |-> "none"]
    /\ devices = <<>>
    /\ devdata = [kind |-> "none"]
    /\ calls = <<>>

\* The command line of blescanner.py as the examples build it.
ExampleArgv ==
    (IF run.mac # NoneStr THEN <<option("m", run.mac)>> ELSE <<>>)
    \o <<option("t", str_int(run.timeout)), option("a", str_int(run.advdata)),
         option("d", str_int(_DEBUG))>>

\* The command line of blescanner.py typed into a shell: -t 5 -a 1 -m MAC.
ShellArgv ==
    <<<<"-", "t">>, str_int(run.timeout), <<"-", "a">>, str_int(run.advdata)>>
    \o (IF run.mac # NoneStr THEN <<<<"-", "m">>, run.mac>> ELSE <<>>)

\* ble_scanner(mac, timeout, advdata, debug) of the examples: blescanner.py
\* runs as a subprocess and its output is parsed into the list of devices.
\* The scan lasts _timeout seconds, so the subprocess outlives its own
\* timeout when _timeout reaches it: TimeoutExpired, (False, None).
ble_scanner ==
    /\ pc = "start" /\ script # "blescanner"
    /\ LET out == blescanner_main(ExampleArgv, discovered)
       IN  /\ scanner' = out.scanner
           /\ devices' = IF out.scanner._timeout >= _TIME_OUT_SUBPROCESS
                         THEN <<>> ELSE out.output
    /\ pc' = "scanned"
    /\ UNCHANGED <<run, discovered, devdata, calls>>

\* blescanner.py run from a shell: the list is printed.
blescanner_shell ==
    /\ pc = "start" /\ script = "blescanner"
    /\ LET out == blescanner_main(ShellArgv, discovered)
       IN  /\ scanner' = out.scanner
           /\ devices' = out.output
    /\ pc' = "done"
    /\ UNCHANGED <<run, discovered, devdata, calls>>

\* One call of decode_data as the history keeps it.
Call(sc, data, result) == [script |-> sc, data |-> data, result |-> result]

\* status of 'status, devices = ble_scanner(...)': len(devices_found) > 0.
status == Len(devices) > 0

\* __main__ of an example after the scan:
\* if status: if len(devices) == 1: devdata = decode_data(devices[0])
atc_main ==
    /\ pc = "scanned" /\ script = "atc"
    /\ devdata' = IF status /\ Len(devices) = 1
                  THEN decode_data_atc(devices[1]) ELSE devdata
    /\ calls' = IF status /\ Len(devices) = 1
                THEN Append(calls, Call("atc", devices[1], devdata')) ELSE calls
    /\ pc' = "done"
    /\ UNCHANGED <<run, discovered, scanner, devices>>

gvh5075_main ==
    /\ pc = "scanned" /\ script = "gvh5075"
    /\ devdata' = IF status /\ Len(devices) = 1
                  THEN decode_data_gvh5075(devices[1]) ELSE devdata
    /\ calls' = IF status /\ Len(devices) = 1
                THEN Append(calls, Call("gvh5075", devices[1], devdata')) ELSE calls
    /\ pc' = "done"
    /\ UNCHANGED <<run, discovered, scanner, devices>>

ruuvitag_main ==
    /\ pc = "scanned" /\ script = "ruuvitag"
    /\ devdata' = IF status /\ Len(devices) = 1
                  THEN decode_data_ruuvitag(devices[1]) ELSE devdata
    /\ calls' = IF status /\ Len(devices) = 1
                THEN Append(calls, Call("ruuvitag", devices[1], devdata')) ELSE calls
    /\ pc' = "done"
    /\ UNCHANGED <<run, discovered, scanner, devices>>

\* __main__ of the multiple-devices example after the scan: the devices are
\* printed.
multiple_devices_main ==
    /\ pc = "scanned" /\ script = "multiple_devices"
    /\ pc' = "done"
    /\ UNCHANGED <<run, discovered, scanner, devices, devdata, calls>>

Next ==
    \/ ble_scanner
    \/ blescanner_shell
    \/ atc_main
    \/ gvh5075_main
    \/ ruuvitag_main
    \/ multiple_devices_main

Spec == Init /\ [][Next]_vars

(***************************************************************************)
(* Repeated calls of decode_data: a program that imports the examples and  *)
(* calls their decode_data functions on the records of one scan, any       *)
(* number of times (up to MaxCalls) and in any order.  The functions read  *)
(* the record and the module constants and assign only local names.       *)
(***************************************************************************)
\* The devices of one scan without a mac, with advertised data.
ScannedRecords ==
    scanning(BLEScanner_init(_TIME_OUT, _ADVDATA, NoneStr, _DEBUG),
             <<<<[address |-> ATC_MAC, name |-> "ATC_38A90C"],
                 AdvertisementData(EmptyDict, ATC_SERVICE_UUID :> ATC_EXAMPLE)>>,
               <<[address |-> GVH_MAC, name |-> "GVH5075_1757"],
                 AdvertisementData(60552 :> GVH_EXAMPLE, EmptyDict)>>,
               <<[address |-> RUUVI_MAC, name |-> "Ruuvi B78D"],
                 AdvertisementData(1177 :> RUUVI_EXAMPLE, EmptyDict)>>,
               <<[address |-> OTHER_MAC, name |-> None],
                 AdvertisementData((60552 :> Pad(GVH_EXAMPLE, 5))
                                   @@ (1177 :> [RUUVI_EXAMPLE EXCEPT ![1] = 3]),
                                   ATC_SERVICE_UUID :> PutU16LE(ATC_EXAMPLE, 6, 65529))>>>>)

Scripts == {"atc", "gvh5075", "ruuvitag"}

\* Faulty variant: every second call hands back the result of the call
\* before it.
decode_data_remembering(sc, data) ==
    IF Len(calls) % 2 = 1 THEN calls[Len(calls)].result
    ELSE CASE sc = "atc"      -> decode_data_atc(data)
           [] sc = "gvh5075"  -> decode_data_gvh5075(data)
           [] sc = "ruuvitag" -> decode_data_ruuvitag(data)

\* decode_data(data) of the example sc.
decode_data(sc, data) ==
    CASE sc = "atc"      -> decode_data_atc(data)
      [] sc = "gvh5075"  -> decode_data_gvh5075(data)
      [] sc = "ruuvitag" -> decode_data_ruuvitag(data)

InitCalls ==
    /\ pc = "calls"
    /\ run \in {r \in ExampleRuns : r.script = "multiple_devices"}
    /\ discovered = <<>>
    /\ scanner = [kind |-> "none"]
    /\ devices = ScannedRecords
    /\ devdata = [kind |-> "none"]
    /\ calls = <<>>

decode_call ==
    /\ pc = "calls"
    /\ Len(calls) < MaxCalls
    /\ \E sc \in Scripts, i \in 1..Len(devices) :
          /\ devdata' = decode_data(sc, devices[i])
          /\ calls' = Append(calls, Call(sc, devices[i], devdata'))
    /\ UNCHANGED <<pc, run, discovered, scanner, devices>>

NextCalls == decode_call

SpecCalls == InitCalls /\ [][NextCalls]_vars

(***************************************************************************)
(* The Ruuvi example over the whole range of the power-info field: a run   *)
(* of the example for each of the 65536 values of bytes 13..14 of the      *)
(* documented payload.                                                     *)
(***************************************************************************)
\* The values of an unsigned 16-bit field ('H').
PowerInfoValues == 0..65535

InitPower ==
    /\ pc = "start"
    /\ run \in {r \in ExampleRuns : r.script = "ruuvitag"}
    /\ \E power \in PowerInfoValues :
          discovered =
            <<<<[address |-> RUUVI_MAC, name |-> "Ruuvi B78D"],
                AdvertisementData(1177 :> PutU16BE(RUUVI_EXAMPLE, 13, power),
                                  EmptyDict)>>>>
    /\ scanner = [kind |-> "none"]
    /\ devices = <<>>
    /\ devdata = [kind |-> "none"]
    /\ calls = <<>>

NextPower == ble_scanner \/ ruuvitag_main

SpecPower == InitPower /\ [][NextPower]_vars

(***************************************************************************)
(* Vocabulary of the properties.                                           *)
(***************************************************************************)
\* decode_data has been called.
Decoded == pc = "done" /\ devdata.kind # "none"

\* The key each example looks up and the payload size it expects.
ConfiguredKey(sc) ==
    CASE sc = "atc"      -> _UUID_SERVICE_DATA
      [] sc = "gvh5075"  -> GVH_MANUFACTURER_KEY
      [] sc = "ruuvitag" -> RUUVI_MANUFACTURER_KEY

ExpectedLength(sc) ==
    CASE sc = "atc" -> 15 [] sc = "gvh5075" -> 6 [] sc = "ruuvitag" -> 24

\* The record handed to decode_data, and whether it holds the example's key.
Record == devices[1]

HasKey(sc) == ConfiguredKey(sc) \in DOMAIN Record.advertisementdata

\* Number of bytes of the hex payload under the example's key.
HexByteLength(sc) == Len(Record.advertisementdata[ConfiguredKey(sc)]) \div 2

\* The discovered device the record was made of, with its advertisement.
Source ==
    discovered[CHOOSE i \in 1..Len(discovered) :
                   discovered[i][1].address = Record.address]

\* The bytes the radio reported for the example's key (before any conversion).
HasPayload(sc) ==
    CASE sc = "atc"      -> ATC_SERVICE_UUID \in DOMAIN Source[2].service_data
      [] sc = "gvh5075"  -> 60552 \in DOMAIN Source[2].manufacturer_data
      [] sc = "ruuvitag" -> 1177 \in DOMAIN Source[2].manufacturer_data
      [] OTHER -> FALSE

Payload(sc) ==
    CASE sc = "atc"      -> Source[2].service_data[ATC_SERVICE_UUID]
      [] sc = "gvh5075"  -> Source[2].manufacturer_data[60552]
      [] sc = "ruuvitag" -> Source[2].manufacturer_data[1177]

Returned == Decoded /\ devdata.kind = "return"

Reading == devdata.value

\* Byte i (0-based) of the payload, and its 16-bit fields.
B(sc, i) == Payload(sc)[i + 1]

Signed16(u) == IF u >= 32768 THEN u - 65536 ELSE u

CommonFields == {"mac", "name", "status", "message"}

NumericFields(sc) ==
    CASE sc = "atc"      -> {"temperature", "humidity", "voltage", "batterylevel"}
      [] sc = "gvh5075"  -> {"temperature", "humidity", "batterylevel"}
      [] sc = "ruuvitag" -> {"temperature", "humidity", "airpressure",
                             "accelerationx", "accelerationy", "accelerationz",
                             "voltage", "batterylevel", "txstrength",
                             "movementcounter", "sequencecounter"}

AllNumericFields == UNION {NumericFields(sc) : sc \in {"atc", "gvh5075", "ruuvitag"}}

(***************************************************************************)
(* C1: for each decoder, a record whose configured key holds a hex payload *)
(* of a byte length other than the expected one (0 included) decodes,      *)
(* without an exception, to a reading with status ERR whose message        *)
(* contains the expected length and the received length.                   *)
(***************************************************************************)
C1_WrongLengthIsErr ==
    (Decoded /\ HasKey(script) /\ HexByteLength(script) # ExpectedLength(script))
    => /\ devdata.kind = "return"
       /\ Reading.status = "ERR"
       /\ \E i, j \in DOMAIN Reading.message :
            /\ i # j
            /\ Reading.message[i] = ToString(ExpectedLength(script))
            /\ Reading.message[j] = ToString(HexByteLength(script))

\* The Ruuvi decoder given 20 bytes instead of 24 has answered ERR.
C1_Witness ==
    /\ Decoded /\ script = "ruuvitag" /\ HasKey(script)
    /\ HexByteLength(script) = 20
    /\ devdata.kind = "return" /\ Reading.status = "ERR"

(***************************************************************************)
(* C2: for each decoder, when advertisementdata lacks the configured key,  *)
(* decoding yields an ERR reading instead of an unhandled fault.           *)
(***************************************************************************)
C2_MissingKeyIsErr ==
    (Decoded /\ ~HasKey(script))
    => (devdata.kind = "return" /\ Reading.status = "ERR")

(***************************************************************************)
(* C3: Ruuvi: a 24-byte payload whose byte 0 is not 0x05 decodes to status *)
(* ERR with a non-empty message whatever bytes 1..23 are, and no payload   *)
(* with byte 0 other than 0x05 ever yields status OK.                      *)
(***************************************************************************)
C3_WrongDiscriminatorIsErr ==
    (Decoded /\ script = "ruuvitag" /\ HasPayload(script)
        /\ Len(Payload(script)) >= 1 /\ B(script, 0) # 5)
    => /\ ~(devdata.kind = "return" /\ Reading.status = "OK")
       /\ Len(Payload(script)) = 24
            => /\ devdata.kind = "return"
               /\ Reading.status = "ERR"
               /\ Reading.message # <<>>

\* A 24-byte payload that differs from the documented example only in its
\* first byte (3 for 5) has been answered with ERR.
C3_Witness ==
    /\ Decoded /\ script = "ruuvitag" /\ HasPayload(script)
    /\ Payload(script) = [RUUVI_EXAMPLE EXCEPT ![1] = 3]
    /\ devdata.kind = "return" /\ Reading.status = "ERR"

(***************************************************************************)
(* C4 as claimed: the ERR reading for a wrong discriminator carries a      *)
(* message that names the discriminator value received.                    *)
(***************************************************************************)
C4_MessageNamesDiscriminator ==
    (Returned /\ script = "ruuvitag" /\ HasPayload(script)
        /\ Len(Payload(script)) = 24 /\ B(script, 0) # 5)
    => \E i \in DOMAIN Reading.message :
            Reading.message[i] = ToString(B(script, 0))

(***************************************************************************)
(* C4 as amended: the ERR reading for a wrong discriminator carries the    *)
(* one fixed message 'Received wrong data type.', the same for every wrong *)
(* discriminator value.                                                    *)
(***************************************************************************)
C4_MessageIsFixed ==
    (Returned /\ script = "ruuvitag" /\ HasPayload(script)
        /\ Len(Payload(script)) = 24 /\ B(script, 0) # 5)
    => /\ Reading.status = "ERR"
       /\ Reading.message = <<"Received wrong data type.">>

\* Discriminator 0xFF has been answered with the fixed message.
C4_Witness ==
    /\ Returned /\ script = "ruuvitag" /\ HasPayload(script)
    /\ Len(Payload(script)) = 24 /\ B(script, 0) = 255
    /\ Reading.message = <<"Received wrong data type.">>

(***************************************************************************)
(* C5: every reading returned by a decoder, OK or ERR, has the four common *)
(* fields mac, name, status and message, with mac the record's address,    *)
(* name the record's name (possibly null) and status OK or ERR.            *)
(***************************************************************************)
C5_CommonFields ==
    Returned
    => /\ CommonFields \subseteq DOMAIN Reading
       /\ Reading.mac = Record.address
       /\ Reading.name = Record.name
       /\ Reading.status \in {"OK", "ERR"}

(***************************************************************************)
(* C6: in every reading returned, status is OK exactly when message is     *)
(* empty, an OK reading carries all the numeric fields of its format and   *)
(* an ERR reading carries no numeric field.                                *)
(***************************************************************************)
C6_NumericFieldsIffOk ==
    Returned
    => /\ (Reading.status = "OK") <=> (Reading.message = <<>>)
       /\ Reading.status = "OK"
            => NumericFields(script) = DOMAIN Reading \ CommonFields
       /\ Reading.status # "OK"
            => DOMAIN Reading \cap AllNumericFields = {}

\* The documented Ruuvi example has been decoded to an OK reading.
C6_Witness ==
    /\ Returned /\ script = "ruuvitag" /\ HasPayload(script)
    /\ Payload(script) = RUUVI_EXAMPLE
    /\ Reading.status = "OK" /\ Reading.message = <<>>

(***************************************************************************)
(* C7: Xiaomi/ATC: every 15-byte payload b decodes to an OK reading with   *)
(* temperature = T/100 (T the little-endian unsigned 16 bits of b[6..7]),  *)
(* humidity an integer within 0.5 of H/100 (H of b[8..9]), voltage =       *)
(* V/1000 rounded to two decimals (V of b[10..11]) and batterylevel =      *)
(* b[12]; payload C2745238C1A45907DB15130A36830E gives 18.81, 56, 2.58     *)
(* and 54.  (temperature and voltage are in 1/100.)                        *)
(***************************************************************************)
C7_AtcFields ==
    (Decoded /\ script = "atc" /\ HasPayload(script) /\ Len(Payload(script)) = 15)
    => LET T == B(script, 6) + 256 * B(script, 7)
           H == B(script, 8) + 256 * B(script, 9)
           V == B(script, 10) + 256 * B(script, 11)
       IN  /\ devdata.kind = "return"
           /\ Reading.status = "OK"
           /\ Reading.temperature = T
           /\ Abs(100 * Reading.humidity - H) <= 50
           /\ Abs(10 * Reading.voltage - V) <= 5
           /\ Reading.batterylevel = B(script, 12)
           /\ Payload(script) = ATC_EXAMPLE
                => /\ Reading.temperature = 1881
                   /\ Reading.humidity = 56
                   /\ Reading.voltage = 258
                   /\ Reading.batterylevel = 54

\* The documented payload has been decoded.
C7_Witness ==
    /\ Returned /\ script = "atc" /\ HasPayload(script)
    /\ Payload(script) = ATC_EXAMPLE
    /\ Reading.status = "OK" /\ Reading.temperature = 1881

\* A Govee payload: its sign flag and the value of bytes 0..3 with the flag
\* cleared, as byte 0 and the remaining 24 bits (raw' = 2^24 * b0 + Low24).
GvhNegative == B("gvh5075", 1) >= 128

GvhLow24 ==
    65536 * (B("gvh5075", 1) % 128) + 256 * B("gvh5075", 2) + B("gvh5075", 3)

\* raw' - 1000 * k, from 2^24 = 16777 * 1000 + 216.
GvhRest(k) == GvhLow24 + 216 * B("gvh5075", 0) - 1000 * (k - 16777 * B("gvh5075", 0))

(***************************************************************************)
(* C8: Govee: every 6-byte payload b decodes to an OK reading with         *)
(* temperature = (raw' // 1000) / 10, negated when bit 0x800000 of the     *)
(* big-endian 32-bit value of b[0..3] is set (raw' is that value with the  *)
(* bit cleared), and batterylevel = b[4].  (temperature is in 1/10.)       *)
(***************************************************************************)
C8_GvhTemperature ==
    (Decoded /\ script = "gvh5075" /\ HasPayload(script) /\ Len(Payload(script)) = 6)
    => /\ devdata.kind = "return"
       /\ Reading.status = "OK"
       /\ LET k == IF GvhNegative THEN -Reading.temperature
                                  ELSE Reading.temperature
          IN  k >= 0 /\ GvhRest(k) \in 0..999
       /\ Reading.batterylevel = B(script, 4)

\* A payload with the sign flag set has been decoded to a negative temperature.
C8_Witness ==
    /\ Returned /\ script = "gvh5075" /\ HasPayload(script)
    /\ Len(Payload(script)) = 6 /\ GvhNegative
    /\ Reading.status = "OK" /\ Reading.temperature < 0

(***************************************************************************)
(* C9 as claimed: Govee: the reported humidity equals (raw' % 1000) / 10   *)
(* with its tenth kept.                                                    *)
(***************************************************************************)
C9_HumidityKeepsTenths ==
    (Returned /\ script = "gvh5075" /\ HasPayload(script)
        /\ Len(Payload(script)) = 6)
    => 10 * Reading.humidity = (GvhLow24 + 216 * B(script, 0)) % 1000

(***************************************************************************)
(* C9 as amended: Govee: the reported humidity is (raw' % 1000) / 10       *)
(* truncated to an integer: the tenths are dropped.                        *)
(***************************************************************************)
C9_HumidityTruncated ==
    (Returned /\ script = "gvh5075" /\ HasPayload(script)
        /\ Len(Payload(script)) = 6)
    => LET rest == (GvhLow24 + 216 * B(script, 0)) % 1000
       IN  /\ Reading.humidity \in 0..99
           /\ rest - 10 * Reading.humidity \in 0..9

\* The documented payload (raw 171587, 58.7 %RH) has been decoded to 58.
C9_Witness ==
    /\ Returned /\ script = "gvh5075" /\ HasPayload(script)
    /\ Payload(script) = GVH_EXAMPLE
    /\ Reading.humidity = 58

(***************************************************************************)
(* C10: Ruuvi: every 24-byte payload b with b[0] = 0x05 decodes, reading   *)
(* big-endian, to an OK reading with temperature = S16(b[1..2]) / 200 to   *)
(* one decimal (not positive when the signed value is negative), humidity  *)
(* = U16(b[3..4]) // 400, airpressure = (U16(b[5..6]) + 50000) // 100,     *)
(* accelerationx/y/z = S16 of b[7..8], b[9..10], b[11..12], txstrength =   *)
(* (U16(b[13..14]) & 0x1F) * 2 - 40, movementcounter = b[15] and           *)
(* sequencecounter = U16(b[16..17]).  (temperature is in 1/10.)            *)
(***************************************************************************)
C10_RuuviFields ==
    (Decoded /\ script = "ruuvitag" /\ HasPayload(script)
        /\ Len(Payload(script)) = 24 /\ B(script, 0) = 5)
    => LET U(i) == 256 * B(script, i) + B(script, i + 1)
           S(i) == Signed16(U(i))
       IN  /\ devdata.kind = "return"
           /\ Reading.status = "OK"
           /\ Abs(20 * Reading.temperature - S(1)) <= 10
           /\ S(1) < 0 => Reading.temperature <= 0
           /\ S(1) > 0 => Reading.temperature >= 0
           /\ Reading.humidity = U(3) \div 400
           /\ Reading.airpressure = (U(5) + 50000) \div 100
           /\ Reading.accelerationx = S(7)
           /\ Reading.accelerationy = S(9)
           /\ Reading.accelerationz = S(11)
           /\ Reading.txstrength = (U(13) % 32) * 2 - 40
           /\ Reading.movementcounter = B(script, 15)
           /\ Reading.sequencecounter = U(16)

\* A payload with a negative temperature field (0xFFFF = -1) has been decoded.
C10_Witness ==
    /\ Returned /\ script = "ruuvitag" /\ HasPayload(script)
    /\ Payload(script) = PutU16BE(RUUVI_EXAMPLE, 1, 65535)
    /\ Reading.status = "OK" /\ Reading.temperature = 0
    /\ Reading.accelerationx = -32

(***************************************************************************)
(* C11: Ruuvi: the reported voltage depends only on the top 11 bits of the *)
(* power-info field U16(b[13..14]): it is ((power_info >> 5) + 1600) /     *)
(* 1000 rounded to two decimals, the same as for the payload whose low 5   *)
(* bits of power-info are zero.  (voltage is in 1/100 V.)                  *)
(***************************************************************************)
C11_VoltageFromTopBits ==
    (Returned /\ script = "ruuvitag" /\ HasPayload(script)
        /\ Len(Payload(script)) = 24 /\ B(script, 0) = 5)
    => LET power == 256 * B(script, 13) + B(script, 14)
           top   == power \div 32
       IN  /\ Reading.voltage = PyRound(top + 1600, 1000, 100)
           /\ Reading.voltage = ruuvi_voltage(32 * top)

(***************************************************************************)
(* C12: Ruuvi: for every 24-byte payload with b[0] = 0x05, batterylevel is *)
(* ((voltage - 1.600) / (3.646 - 1.600)) * 100 truncated to an integer,    *)
(* computed from the reported two-decimal voltage, whatever the value is:  *)
(* nothing brings it into 0..100.                                          *)
(***************************************************************************)
C12_BatteryLevelTruncated ==
    (Returned /\ script = "ruuvitag" /\ HasPayload(script)
        /\ Len(Payload(script)) = 24 /\ B(script, 0) = 5)
    => LET mv == 10 * Reading.voltage - 1600
           l  == Reading.batterylevel
       IN  IF mv >= 0
           THEN 2046 * l <= 100 * mv /\ 100 * mv < 2046 * (l + 1)
           ELSE 2046 * l >= 100 * mv /\ 100 * mv > 2046 * (l - 1)

\* A payload whose percentage has a fraction above one half has been decoded:
\* power-info 2575 gives 1.68 V and 3.91 %, reported as 3.
C12_Witness ==
    /\ Returned /\ script = "ruuvitag" /\ HasPayload(script)
    /\ Payload(script) = PutU16BE(RUUVI_EXAMPLE, 13, 2575)
    /\ Reading.status = "OK"
    /\ Reading.voltage = 168 /\ Reading.batterylevel = 3

(***************************************************************************)
(* C13: Govee: a record whose 0XEC88 payload is 00029E436400 decodes to an *)
(* OK reading with temperature 17.1, humidity 58 and batterylevel 100.     *)
(* (temperature is in 1/10.)                                               *)
(***************************************************************************)
C13_GvhFixture ==
    (Decoded /\ script = "gvh5075" /\ HasPayload(script)
        /\ Payload(script) = <<0, 2, 158, 67, 100, 0>>)
    => /\ devdata.kind = "return"
       /\ Reading.status = "OK"
       /\ Reading.temperature = 171
       /\ Reading.humidity = 58
       /\ Reading.batterylevel = 100

\* The record of the scanner that carries 00029E436400 under 0XEC88 has been
\* decoded by the Govee example.
C13_Witness ==
    /\ Decoded /\ script = "gvh5075" /\ HasKey(script)
    /\ Record.advertisementdata[GVH_MANUFACTURER_KEY]
         = <<"0", "0", "0", "2", "9", "E", "4", "3", "6", "4", "0", "0">>
    /\ devdata.kind = "return" /\ Reading.status = "OK"

\* The first 18 bytes of a payload are those of 050B856030C879FFE0006403F8AA16193843.
RuuviFixture(p) ==
    /\ Len(p) = 24
    /\ SubSeq(p, 1, 18) = <<5, 11, 133, 96, 48, 200, 121, 255, 224, 0, 100,
                            3, 248, 170, 22, 25, 56, 67>>

(***************************************************************************)
(* C14 as claimed: Ruuvi: a 24-byte payload that starts with               *)
(* 050B856030C879FFE0006403F8AA16193843 decodes to an OK reading with      *)
(* humidity 61 and airpressure 1002.                                       *)
(***************************************************************************)
C14_RuuviFixture1002 ==
    (Decoded /\ script = "ruuvitag" /\ HasPayload(script)
        /\ RuuviFixture(Payload(script)))
    => /\ devdata.kind = "return"
       /\ Reading.status = "OK"
       /\ Reading.humidity = 61
       /\ Reading.airpressure = 1002

(***************************************************************************)
(* C14 as amended: Ruuvi: a 24-byte payload that starts with               *)
(* 050B856030C879FFE0006403F8AA16193843, whatever its last 6 bytes, decodes*)
(* to an OK reading with humidity 61 and airpressure 1013.                 *)
(***************************************************************************)
C14_RuuviFixture ==
    (Decoded /\ script = "ruuvitag" /\ HasPayload(script)
        /\ RuuviFixture(Payload(script)))
    => /\ devdata.kind = "return"
       /\ Reading.status = "OK"
       /\ Reading.humidity = 61
       /\ Reading.airpressure = 1013

\* The fixture followed by other bytes than the documented MAC has been decoded.
C14_Witness ==
    /\ Returned /\ script = "ruuvitag" /\ HasPayload(script)
    /\ RuuviFixture(Payload(script))
    /\ Payload(script)[24] # 141
    /\ Reading.status = "OK"

Scanned == pc # "start"

(***************************************************************************)
(* C16: scanner: for every integer timeout argument t, zero and negative   *)
(* values included, the scan runs for max(t, 5) seconds, never for less    *)
(* than 5.                                                                 *)
(***************************************************************************)
C16_TimeoutClamped ==
    Scanned
    => /\ scanner._timeout >= 5
       /\ run.timeout >= 5 => scanner._timeout = run.timeout
       /\ run.timeout < 5 => scanner._timeout = 5

\* A scan has run for a negative timeout argument.
C16_Witness ==
    /\ Scanned /\ run.timeout = -3 /\ scanner._timeout = 5

\* The list blescanner.py printed has reached its reader: the subprocess of
\* an example was not stopped by its timeout.
Delivered ==
    Scanned /\ (script = "blescanner" \/ scanner._timeout < _TIME_OUT_SUBPROCESS)

Addresses(list) == {list[i].address : i \in 1..Len(list)}

(***************************************************************************)
(* C17: scanner mac filter: when a mac is given, with or without           *)
(* advertised data, the result holds exactly the discovered devices whose  *)
(* address equals the mac without its surrounding blanks, letter case      *)
(* ignored; when no mac is given it holds every discovered device.         *)
(***************************************************************************)
C17_MacFilter ==
    Delivered
    => /\ Len(devices) = Cardinality(Addresses(devices))
       /\ Addresses(devices) =
            IF run.mac = NoneStr
            THEN {discovered[i][1].address : i \in 1..Len(discovered)}
            ELSE {discovered[i][1].address :
                    i \in {j \in 1..Len(discovered) :
                             upper(discovered[j][1].address)
                               = upper(strip(run.mac))}}

\* The keys of advertisementdata that are no payload keys.
FlagKeys == {KEY_manufacturer_data, KEY_service_data, KEY_tx_power, KEY_rssi}

\* The record with no other advertisementdata key than the configured one.
OnlyConfiguredKey(sc) ==
    [Record EXCEPT !.advertisementdata =
        ConfiguredKey(sc) :> Record.advertisementdata[ConfiguredKey(sc)]]

\* A decoder takes its payload from its configured key and no other: without
\* the key the lookup fails, with it the other keys change nothing.
ExactLookup ==
    Decoded
    => IF HasKey(script)
       THEN devdata = decode_data(script, OnlyConfiguredKey(script))
       ELSE devdata = Raise("KeyError")

(***************************************************************************)
(* C18 as claimed: every key of the advertisementdata the scanner emits    *)
(* equals its own uppercase form, and a decoder takes its payload only     *)
(* from the key equal to its configured key, never from a key that only    *)
(* starts with it.                                                         *)
(***************************************************************************)
C18_AllKeysUppercase ==
    /\ (Scanned /\ scanner._advdata)
       => \A i \in 1..Len(devices) :
            \A k \in DOMAIN devices[i].advertisementdata : k = upper(k)
    /\ ExactLookup

(***************************************************************************)
(* C18 as amended: every manufacturer-ID key and service-UUID key of the   *)
(* advertisementdata the scanner emits equals its own uppercase form; the  *)
(* other keys are the lowercase manufacturer_data, service_data, tx_power  *)
(* and rssi; a decoder takes its payload only from the key equal to its    *)
(* configured key, never from a key that only starts with it.              *)
(***************************************************************************)
C18_PayloadKeysUppercase ==
    /\ (Scanned /\ scanner._advdata)
       => \A i \in 1..Len(devices) :
            \A k \in DOMAIN devices[i].advertisementdata :
                k \notin FlagKeys => k = upper(k)
    /\ ExactLookup

\* The Ruuvi example has decoded a record that holds 0X4990 and the lowercase
\* keys manufacturer_data and rssi but no 0X499: KeyError.
C18_Witness ==
    /\ Decoded /\ script = "ruuvitag" /\ ~HasKey(script)
    /\ {<<"0", "X", "4", "9", "9", "0">>, KEY_manufacturer_data, KEY_rssi}
         \subseteq DOMAIN Record.advertisementdata
    /\ devdata = Raise("KeyError")

\* The positions (0-based) of the payload bytes the decoder of sc ignores.
IgnoredBytes(sc) ==
    CASE sc = "atc"      -> (0..5) \cup (13..14)
      [] sc = "gvh5075"  -> {5}
      [] sc = "ruuvitag" -> 18..23

\* The record with the ignored bytes of its payload set to zero.
IgnoredBytesCleared(sc) ==
    LET p == Payload(sc)
        q == [i \in 1..Len(p) |-> IF (i - 1) \in IgnoredBytes(sc) THEN 0 ELSE p[i]]
    IN  [Record EXCEPT !.advertisementdata[ConfiguredKey(sc)] =
            upper(hex_bytes(q))]

(***************************************************************************)
(* C19: ignored bytes do not influence the reading: a payload of the       *)
(* expected length decodes to the reading of the payload that has zeros in *)
(* bytes 0..5 and 13..14 (Xiaomi), in byte 5 (Govee), in bytes 18..23      *)
(* (Ruuvi), the address and name being the same; so two payloads that      *)
(* differ only in those bytes decode to the same reading.                  *)
(***************************************************************************)
C19_IgnoredBytes ==
    (Decoded /\ HasPayload(script)
        /\ Len(Payload(script)) = ExpectedLength(script))
    => devdata = decode_data(script, IgnoredBytesCleared(script))

\* Payloads that differ from the documented ones in an ignored byte only have
\* been decoded to an OK reading.
C19_Witness ==
    /\ Returned /\ HasPayload(script)
    /\ \/ script = "atc" /\ Payload(script) = [ATC_EXAMPLE EXCEPT ![14] = 255 - @]
       \/ script = "gvh5075" /\ Payload(script) = [GVH_EXAMPLE EXCEPT ![6] = 255]
       \/ script = "ruuvitag"
          /\ Payload(script) = [RUUVI_EXAMPLE EXCEPT ![19] = 255 - @]
    /\ Reading.status = "OK"
    /\ IgnoredBytesCleared(script) # Record

(***************************************************************************)
(* C20: in every run of an example script the scan duration blescanner.py  *)
(* uses (the timeout handed over, raised to the minimum of 5) is strictly  *)
(* less than the 30 seconds of the subprocess timeout, for every value of  *)
(* the -t argument of the Govee example too.                               *)
(***************************************************************************)
C20_ScanShorterThanSubprocess ==
    (Scanned /\ script # "blescanner")
    => scanner._timeout < 30

(***************************************************************************)
(* C21: Ruuvi: for every 24-byte payload with b[0] = 0x05, over all 65536  *)
(* values of the power-info field, the reported batterylevel is an integer *)
(* in 0..100: the voltages 1.60..3.65 V that can be decoded give no        *)
(* negative percentage and none above 100.                                 *)
(***************************************************************************)
C21_BatteryLevelInRange ==
    (Returned /\ script = "ruuvitag" /\ HasPayload(script)
        /\ Len(Payload(script)) = 24 /\ B(script, 0) = 5)
    => /\ Reading.voltage \in 160..365
       /\ Reading.batterylevel \in 0..100

\* The largest power-info value, 0xFFFF, has been decoded: 3.65 V, above the
\* 3.646 V of the full battery, reported as 100.
C21_Witness ==
    /\ Returned /\ script = "ruuvitag" /\ HasPayload(script)
    /\ B(script, 13) = 255 /\ B(script, 14) = 255
    /\ Reading.voltage = 365 /\ Reading.batterylevel = 100

=============================================================================
